---- MODULE Spec2Model ----
(***************************************************************************)
(* Model of the erosion scheduler (Simulator, batch revision), the worker  *)
(* manager (ErosionWorkerManager), the erosion worker and the two erosion  *)
(* strategies as far as the scheduler drives them.                         *)
(*                                                                         *)
(* The public operations of the Simulator are callable in any state by its *)
(* caller; the render loop calls update() once per frame; the worker and   *)
(* the delivery of its messages run independently of the main thread.      *)
(*                                                                         *)
(* Abstractions.  The height buffer is a vector over Cells; the effect of  *)
(* one droplet is one of DropletEffects (a unit delta at one cell).  Wall  *)
(* clock readings are inputs of update(): the time since the previous      *)
(* update ended, the difference of the two successive clock reads before   *)
(* the first loop test, and the cost of one simulateStep.                  *)
(***************************************************************************)
EXTENDS Integers, Sequences, FiniteSets, TLC

\* ---------------------------------------------------------------- bounds
MaxIter == 2
MaxWorkers == 2
GridCells == 1
Side == 5
MaxDelta == 8
MaxRadius == 2
Precision == 64
HeightUnits == 4096
MantissaBits == 3
UnitExp == 6
MaxCompletions == 2

\* ------------------------------------------------------- program constants
TIME_BUDGET == 16
blurRadius == 1

States == {"READY", "RUNNING", "PAUSED", "COMPLETE"}
Models == {"beyer", "pb"}
Cells == 1..GridCells
Workers == 1..MaxWorkers

\* clock inputs of update(), in milliseconds
FrameGaps == {0, TIME_BUDGET}
FirstReads == {0, 1}
StepCosts == {1, 8, 16}

VARIABLES
  state,               \* Simulator.state
  runInBatchMode,      \* Simulator.runInBatchMode
  iterationsCompleted, \* Simulator.iterationsCompleted
  erosionModel,        \* Simulator.erosionModel (which strategy instance)
  iterations,          \* params.iterations of each strategy instance
  changeMap,           \* BeyerErosion.changeMap of the main-thread instance
  heightMap,           \* the live height buffer of the Landscape
  wmWorker,            \* ErosionWorkerManager.worker (0 = null)
  wmCallbacks,         \* run whose closures are in onProgress/onComplete (0 = none)
  nWorkers,            \* number of Worker objects created so far
  workers,             \* per Worker object: status, snapshot, buffer, holders
  inbox,               \* per Worker object: messages posted to the main thread
  lastOp,              \* history: the main-thread operation that ran last
  fired,               \* history: callbacks fired by that operation
  mergedFrom,          \* history: Worker whose result that operation merged (0 = none)
  completions,         \* history: times the complete callbacks ran since the last reset
  probe                \* arguments and results of a strategy method called on its own

\* the scheduler, the worker manager and the workers
progVars == <<state, runInBatchMode, iterationsCompleted, erosionModel, iterations,
              changeMap, heightMap, wmWorker, wmCallbacks, nWorkers, workers,
              inbox, lastOp, fired, mergedFrom, completions>>

vars == <<progVars, probe>>

wmVars == <<wmWorker, wmCallbacks, nWorkers, workers, inbox>>

\* ------------------------------------------------------------ height data
Zero == [c \in Cells |-> 0]
\* a change map: null (not allocated) or a vector of pending deltas
Null == [alloc |-> FALSE, data |-> Zero]
Alloc(v) == [alloc |-> TRUE, data |-> v]
AddVec(a, b) == [c \in Cells |-> a[c] + b[c]]
Unit(k, d) == [c \in Cells |-> IF c = k THEN d ELSE 0]
DropletEffects == {Unit(k, 1) : k \in Cells}
EffectSeqs == [1..MaxIter -> DropletEffects]

\* LandscapeGenerator.generateHeightMap: the generated terrain is the
\* reference level of the model.
Generated == Zero

Max(a, b) == IF a >= b THEN a ELSE b

\* ------------------------------------------------------------- strategies
UsesChangeMap(m) == m = "beyer"

GetIterations(m) == iterations[m]

\* BeyerErosion.initialize
Initialize == Alloc(Zero)

\* a step whose droplet writes into the height map
BeyerSimulateStep_Direct(hm, cm, eff) ==
  [hm |-> AddVec(hm, eff), cm |-> IF ~cm.alloc THEN Initialize ELSE cm]

\* BeyerErosion.simulateStep: allocate the change map on first use, then
\* let the droplet write into the change map only.
BeyerSimulateStep(hm, cm, eff) ==
  LET cm1 == IF ~cm.alloc THEN Initialize ELSE cm
  IN  [hm |-> hm, cm |-> Alloc(AddVec(cm1.data, eff))]

\* PBErosion.simulateStep: the droplet writes into the height map.
PBSimulateStep(hm, cm, eff) == [hm |-> AddVec(hm, eff), cm |-> cm]

SimulateStep(m, hm, cm, eff) ==
  IF m = "beyer" THEN BeyerSimulateStep(hm, cm, eff)
  ELSE PBSimulateStep(hm, cm, eff)

\* a reset that leaves the change map as it is
ResetChangeMap_Keep(cm) == cm

\* BeyerErosion.resetChangeMap
ResetChangeMap(cm) ==
  IF cm.alloc THEN Alloc([c \in DOMAIN cm.data |-> 0]) ELSE cm

\* BeyerErosion.applyChanges (enableBlurring = false branch) / PBErosion.applyChanges
ApplyChanges(m, hm, cm) ==
  IF m = "beyer"
    THEN IF ~cm.alloc THEN [hm |-> hm, cm |-> cm]
         ELSE [hm |-> AddVec(hm, cm.data), cm |-> ResetChangeMap(cm)]
    ELSE [hm |-> hm, cm |-> cm]

\* n successive simulateStep calls (the loops of update and of erode)
RECURSIVE RunSteps(_, _, _, _, _)
RunSteps(m, hm, cm, effs, n) ==
  IF n = 0 THEN [hm |-> hm, cm |-> cm]
  ELSE LET r == RunSteps(m, hm, cm, effs, n - 1)
       IN  SimulateStep(m, r.hm, r.cm, effs[n])

\* BeyerErosion.erode: every droplet writes into a change map private to
\* the call, which is merged into the buffer at the end.
BeyerErode(hm, total, effs) ==
  LET r == RunSteps("beyer", hm, Alloc(Zero), effs, total)
  IN  AddVec(r.hm, r.cm.data)

\* PBErosion.erode: every droplet writes into the buffer.
PBErode(hm, total, effs) == RunSteps("pb", hm, Null, effs, total).hm

Erode(m, hm, total, effs) ==
  IF m = "beyer" THEN BeyerErode(hm, total, effs) ELSE PBErode(hm, total, effs)

\* an erode that merges its deltas and leaves them in the change map of the
\* instance as well
ErodeOn_KeepsDeltas(m, inst, hm, total, effs) ==
  IF m = "beyer"
    THEN LET r == RunSteps("beyer", hm,
                           IF inst.alloc THEN inst ELSE Initialize, effs, total)
         IN  [hm |-> AddVec(r.hm, r.cm.data), inst |-> r.cm]
    ELSE [hm |-> PBErode(hm, total, effs), inst |-> inst]

\* an erode that accumulates into the change map of the instance
ErodeOn_SharedMap(m, inst, hm, total, effs) ==
  IF m = "beyer"
    THEN LET r == RunSteps("beyer", hm,
                           IF inst.alloc THEN inst ELSE Initialize, effs, total)
         IN  [hm |-> AddVec(r.hm, r.cm.data), inst |-> ResetChangeMap(r.cm)]
    ELSE [hm |-> PBErode(hm, total, effs), inst |-> inst]

\* erode called on an instance whose change map is inst: BeyerErosion.erode
\* allocates its own change map and PBErosion.erode has none
ErodeOn(m, inst, hm, total, effs) ==
  [hm |-> Erode(m, hm, total, effs), inst |-> inst]

\* --------------------------------------------------------------- Simulator
\* a completion test that is met one iteration early
ProgressIs100_OffByOne(it, max) == max > 0 /\ (it + 1) * 100 >= 100 * max

\* Simulator.getProgress() === 100
ProgressIs100(it, max) == max > 0 /\ it * 100 = 100 * max

\* The while loop of Simulator.update: number of simulateStep calls.
RECURSIVE StepsRun(_, _, _, _, _)
StepsRun(it, max, elapsed, allowance, cost) ==
  IF it < max /\ elapsed < allowance
    THEN 1 + StepsRun(it + 1, max, elapsed + cost, allowance, cost)
    ELSE 0

TimeAllowance(gap) == Max(1, TIME_BUDGET - gap)

NoWorker == [status |-> "none", model |-> "beyer", total |-> 0, buf |-> Zero, holders |-> {}]

\* no strategy method is being called on its own
NoProbe == [stage |-> "none"]

InitProgram ==
  /\ state = "READY"
  /\ runInBatchMode = FALSE
  /\ iterationsCompleted = 0
  /\ erosionModel = "beyer"
  /\ iterations = [m \in Models |-> MaxIter]
  /\ changeMap = Null
  /\ heightMap = Generated
  /\ wmWorker = 0
  /\ wmCallbacks = 0
  /\ nWorkers = 0
  /\ workers = [w \in Workers |-> NoWorker]
  /\ inbox = [w \in Workers |-> <<>>]
  /\ lastOp = "init"
  /\ fired = <<>>
  /\ mergedFrom = 0
  /\ completions = 0

Init == InitProgram /\ probe = NoProbe

\* Simulator.onComplete ran if "complete" is among the callbacks an operation
\* fired; the count stops at MaxCompletions
Invoked(n, callbacks) ==
  IF \E i \in DOMAIN callbacks : callbacks[i] = "complete"
    THEN IF n < MaxCompletions THEN n + 1 ELSE n
    ELSE n

\* Simulator.start
Start ==
  /\ UNCHANGED <<probe, completions>>
  /\ state' = "RUNNING"
  /\ lastOp' = "start" /\ fired' = <<"start">> /\ mergedFrom' = 0
  /\ UNCHANGED <<runInBatchMode, iterationsCompleted, erosionModel, iterations,
                 changeMap, heightMap>>
  /\ UNCHANGED wmVars

\* Simulator.pause
Pause ==
  /\ UNCHANGED <<probe, completions>>
  /\ state' = "PAUSED"
  /\ lastOp' = "pause" /\ fired' = <<"pause">> /\ mergedFrom' = 0
  /\ UNCHANGED <<runInBatchMode, iterationsCompleted, erosionModel, iterations,
                 changeMap, heightMap>>
  /\ UNCHANGED wmVars

\* a guard that lets update() run in every state outside a batch
UpdateReturns_BatchOnly(st, batch) == batch

\* a guard that does not look at the batch flag
UpdateReturns_StateOnly(st, batch) == st # "RUNNING"

\* Simulator.update, first line: return unless RUNNING outside a batch
UpdateReturns(st, batch) == st # "RUNNING" \/ batch

\* Simulator.update
Tick(gap, e0, cost, effs) ==
  /\ UNCHANGED probe
  /\ lastOp' = "tick" /\ mergedFrom' = 0
  /\ IF UpdateReturns(state, runInBatchMode)
       THEN /\ fired' = <<>>
            /\ UNCHANGED <<state, iterationsCompleted, changeMap, heightMap>>
       ELSE LET a == IF UsesChangeMap(erosionModel)
                       THEN ApplyChanges(erosionModel, heightMap, changeMap)
                       ELSE [hm |-> heightMap, cm |-> changeMap]
                maxIterations == GetIterations(erosionModel)
                n == StepsRun(iterationsCompleted, maxIterations, e0,
                              TimeAllowance(gap), cost)
                r == RunSteps(erosionModel, a.hm, a.cm, effs, n)
                it == iterationsCompleted + n
            IN  /\ heightMap' = r.hm
                /\ changeMap' = r.cm
                /\ iterationsCompleted' = it
                /\ IF ProgressIs100(it, maxIterations)
                     THEN state' = "COMPLETE" /\ fired' = <<"complete">>
                     ELSE state' = state /\ fired' = <<>>
  /\ UNCHANGED <<runInBatchMode, erosionModel, iterations>>
  /\ UNCHANGED wmVars
  /\ completions' = Invoked(completions, fired')

Update == \E gap \in FrameGaps, e0 \in FirstReads, cost \in StepCosts, effs \in EffectSeqs :
            Tick(gap, e0, cost, effs)

\* ------------------------------------------------- ErosionWorkerManager
\* A Worker object that holds no strategy instance and no buffer any more.
Released(st, h) == [status |-> st, model |-> "beyer", total |-> 0, buf |-> Zero, holders |-> h]

\* Worker.terminate: the worker stops, its buffer is gone with it and the
\* messages it posted that were not yet dispatched are discarded.  The status
\* records why: "cancelled" from cancel(), "terminated" from the cleanup
\* after a complete or error message.
Terminate(ws, w, why) == [ws EXCEPT ![w] = Released(why, {})]

\* ErosionWorkerManager.cleanup, on the inbox ib
Cleanup(ib, why) ==
  IF wmWorker # 0
    THEN [worker |-> 0, workers |-> Terminate(workers, wmWorker, why),
          inbox |-> [ib EXCEPT ![wmWorker] = <<>>]]
    ELSE [worker |-> wmWorker, workers |-> workers, inbox |-> ib]

\* postMessage(message) without a transfer list: the receiver gets a copy and
\* the sender keeps the buffer.
TransferOwnership_Clone(holders, from, to) == holders \cup {to}

\* postMessage(message, [buffer]): the buffer leaves the sender and arrives
\* at the receiver.
TransferOwnership(holders, from, to) == (holders \ {from}) \cup {to}

\* a reset that leaves the iteration counter alone
Reset_KeepsCounter ==
  /\ UNCHANGED probe
  /\ IF runInBatchMode
       THEN LET c == Cleanup(inbox, "cancelled")
            IN  /\ wmWorker' = c.worker
                /\ workers' = c.workers
                /\ inbox' = c.inbox
       ELSE UNCHANGED <<wmWorker, workers, inbox>>
  /\ runInBatchMode' = FALSE
  /\ state' = "READY"
  /\ heightMap' = Generated
  /\ lastOp' = "reset" /\ fired' = <<"reset">> /\ mergedFrom' = 0
  /\ completions' = 0
  /\ UNCHANGED <<iterationsCompleted, erosionModel, iterations, changeMap,
                 wmCallbacks, nWorkers>>

\* Simulator.reset
Reset ==
  /\ UNCHANGED probe
  /\ IF runInBatchMode
       THEN LET c == Cleanup(inbox, "cancelled")
            IN  /\ wmWorker' = c.worker
                /\ workers' = c.workers
                /\ inbox' = c.inbox
       ELSE UNCHANGED <<wmWorker, workers, inbox>>
  /\ runInBatchMode' = FALSE
  /\ state' = "READY"
  /\ iterationsCompleted' = 0
  /\ heightMap' = Generated
  /\ lastOp' = "reset" /\ fired' = <<"reset">> /\ mergedFrom' = 0
  /\ completions' = 0
  /\ UNCHANGED <<erosionModel, iterations, changeMap, wmCallbacks, nWorkers>>

\* Simulator.startBatch with ErosionWorkerManager.startBatchErosion
StartBatch ==
  /\ UNCHANGED <<probe, completions>>
  /\ nWorkers < MaxWorkers
  /\ LET w == nWorkers + 1
         heightMapCopy == heightMap
     IN  /\ nWorkers' = w
         /\ wmWorker' = w
         /\ wmCallbacks' = w
         /\ workers' = [workers EXCEPT ![w] =
                          [status |-> "running", model |-> erosionModel,
                           total |-> GetIterations(erosionModel),
                           buf |-> heightMapCopy,
                           holders |-> TransferOwnership({"main"}, "main", "worker")]]
  /\ state' = "RUNNING"
  /\ runInBatchMode' = TRUE
  /\ lastOp' = "startBatch" /\ fired' = <<"start">> /\ mergedFrom' = 0
  /\ UNCHANGED <<iterationsCompleted, erosionModel, iterations, changeMap, heightMap,
                 inbox>>

\* --------------------------------------------------------- erosion.worker
Msg(t, i, n, hm) == [type |-> t, iteration |-> i, total |-> n, heightMap |-> hm]

\* progress messages posted by erode(..., onProgress): one every
\* ProgressEvery iterations while the run is under way
ProgressEvery == 1
ProgressPoints(total) == {i \in 1..(total - 1) : i % ProgressEvery = 0}
RECURSIVE ProgressMsgs(_, _)
ProgressMsgs(i, total) ==
  IF i < 1 THEN <<>>
  ELSE IF i \in ProgressPoints(total)
         THEN Append(ProgressMsgs(i - 1, total), Msg("progress", i, total, Zero))
         ELSE ProgressMsgs(i - 1, total)

\* self.onmessage for a 'start' message: rebuild the strategy, initialize,
\* erode, applyChanges of the fresh instance, post 'complete' with the
\* buffer transferred back.
WorkerResult(m, hm, total, effs) ==
  LET instanceChangeMap == IF m = "beyer" THEN Initialize ELSE Null
      eroded == ErodeOn(m, instanceChangeMap, hm, total, effs)
  IN  IF UsesChangeMap(m) THEN ApplyChanges(m, eroded.hm, eroded.inst).hm
      ELSE eroded.hm

WorkerRun(w, effs) ==
  /\ UNCHANGED <<probe, completions>>
  /\ workers[w].status = "running"
  /\ LET result == WorkerResult(workers[w].model, workers[w].buf, workers[w].total, effs)
     IN  /\ workers' = [workers EXCEPT ![w] =
                          Released("done", TransferOwnership(@.holders, "worker", "main"))]
         /\ inbox' = [inbox EXCEPT ![w] =
                        ProgressMsgs(workers[w].total, workers[w].total)
                          \o <<Msg("complete", 0, 0, result)>>]
  /\ UNCHANGED <<state, runInBatchMode, iterationsCompleted, erosionModel, iterations,
                 changeMap, heightMap, wmWorker, wmCallbacks, nWorkers,
                 lastOp, fired, mergedFrom>>

\* The worker fails (script error, exception in the handler) after having
\* posted k progress messages; the browser reports it on worker.onerror.
WorkerFail(w, k) ==
  /\ UNCHANGED <<probe, completions>>
  /\ workers[w].status = "running"
  /\ k <= Len(ProgressMsgs(workers[w].total, workers[w].total))
  /\ workers' = [workers EXCEPT ![w].status = "failed"]
  /\ inbox' = [inbox EXCEPT ![w] =
                 SubSeq(ProgressMsgs(workers[w].total, workers[w].total), 1, k)
                   \o <<Msg("error", 0, 0, Zero)>>]
  /\ UNCHANGED <<state, runInBatchMode, iterationsCompleted, erosionModel, iterations,
                 changeMap, heightMap, wmWorker, wmCallbacks, nWorkers,
                 lastOp, fired, mergedFrom>>

\* worker.onmessage / worker.onerror of Worker object w, with the callbacks
\* Simulator.startBatch handed to the manager.
Deliver(w) ==
  /\ UNCHANGED probe
  /\ inbox[w] # <<>>
  /\ LET msg == Head(inbox[w])
         rest == [inbox EXCEPT ![w] = Tail(inbox[w])]
     IN  CASE msg.type = "progress" ->
                /\ iterationsCompleted' = IF wmCallbacks # 0 THEN msg.iteration
                                          ELSE iterationsCompleted
                /\ inbox' = rest
                /\ lastOp' = "progress" /\ fired' = <<>> /\ mergedFrom' = 0
                /\ UNCHANGED <<state, runInBatchMode, heightMap, wmWorker, workers>>
           [] msg.type = "complete" ->
                LET c == Cleanup(rest, "terminated")
                IN  /\ heightMap' = msg.heightMap
                    /\ state' = "COMPLETE"
                    /\ runInBatchMode' = FALSE
                    /\ iterationsCompleted' = GetIterations(erosionModel)
                    /\ wmWorker' = c.worker
                    /\ workers' = c.workers
                    /\ inbox' = c.inbox
                    /\ lastOp' = "complete" /\ fired' = <<"complete">>
                    /\ mergedFrom' = w
           [] msg.type = "error" ->
                LET c == Cleanup(rest, "terminated")
                IN  /\ wmWorker' = c.worker
                    /\ workers' = c.workers
                    /\ inbox' = c.inbox
                    /\ lastOp' = "error" /\ fired' = <<>> /\ mergedFrom' = 0
                    /\ UNCHANGED <<state, runInBatchMode, iterationsCompleted, heightMap>>
  /\ UNCHANGED <<erosionModel, iterations, changeMap, wmCallbacks, nWorkers>>
  /\ completions' = Invoked(completions, fired')

\* ------------------------------------------------------------- the caller
\* Simulator.setErosionModel
SetErosionModel(m) ==
  /\ UNCHANGED <<probe, completions>>
  /\ erosionModel' = m
  /\ lastOp' = "setErosionModel" /\ fired' = <<>> /\ mergedFrom' = 0
  /\ UNCHANGED <<state, runInBatchMode, iterationsCompleted, iterations, changeMap,
                 heightMap>>
  /\ UNCHANGED wmVars

\* simulator.getErosionModel().setIterations(n)
SetIterations(n) ==
  /\ UNCHANGED <<probe, completions>>
  /\ iterations' = [iterations EXCEPT ![erosionModel] = n]
  /\ lastOp' = "setIterations" /\ fired' = <<>> /\ mergedFrom' = 0
  /\ UNCHANGED <<state, runInBatchMode, iterationsCompleted, erosionModel, changeMap,
                 heightMap>>
  /\ UNCHANGED wmVars

\* LandscapeControls: a generator parameter is changed, landscape.regenerate()
Regenerate ==
  /\ UNCHANGED <<probe, completions>>
  /\ heightMap' = Generated
  /\ lastOp' = "regenerate" /\ fired' = <<>> /\ mergedFrom' = 0
  /\ UNCHANGED <<state, runInBatchMode, iterationsCompleted, erosionModel, iterations,
                 changeMap>>
  /\ UNCHANGED wmVars

\* ------------------------------------- strategy methods on a square grid
\* The buffer of a Side x Side grid is indexed 0 .. Side*Side-1, row by row.
\* Heights and deltas are counted in units of the rounding step of the
\* arithmetic: every quotient is rounded to the nearest unit.
GridIdx == 0..(Side * Side - 1)
GridZero == [i \in GridIdx |-> 0]
GridZeroOn(w) == [i \in 0..(w * w - 1) |-> 0]
GridUnit(k, d) == [i \in GridIdx |-> IF i = k THEN d ELSE 0]
InGridOf(x, y, w) == x >= 0 /\ x < w /\ y >= 0 /\ y < w
InGrid(x, y) == InGridOf(x, y, Side)

RoundDiv(a, b) ==
  IF a >= 0 THEN (2 * a + b) \div (2 * b) ELSE -((2 * (-a) + b) \div (2 * b))

RECURSIVE SumOver(_, _)
SumOver(f, S) ==
  IF S = {} THEN 0
  ELSE LET i == CHOOSE j \in S : TRUE IN f[i] + SumOver(f, S \ {i})

\* BeyerErosion.blurArray: box blur, the mean over the cells of the window
\* that lie in the grid
BlurWindowOn(w, i, radius) ==
  {j \in DOMAIN GridZeroOn(w) :
     /\ (j % w) - (i % w) \in -radius..radius
     /\ (j \div w) - (i \div w) \in -radius..radius}
BlurWindow(i, radius) == BlurWindowOn(Side, i, radius)
BlurArrayOn(w, input, radius) ==
  [i \in DOMAIN input |->
     LET count == Cardinality(BlurWindowOn(w, i, radius))
     IN  IF count > 0 THEN RoundDiv(SumOver(input, BlurWindowOn(w, i, radius)), count)
         ELSE 0]
BlurArray(input, radius) == BlurArrayOn(Side, input, radius)

\* BeyerErosion.applyChangeMapWithBlur, blendFactor = 1/2
ApplyChangeMapWithBlurOn(w, hm, cm, enableBlurring) ==
  IF ~enableBlurring THEN [i \in DOMAIN hm |-> hm[i] + cm[i]]
  ELSE LET blurredChangeMap == BlurArrayOn(w, cm, blurRadius)
       IN  [i \in DOMAIN hm |-> hm[i] + RoundDiv(blurredChangeMap[i] + cm[i], 2)]
ApplyChangeMapWithBlur(hm, cm, enableBlurring) ==
  ApplyChangeMapWithBlurOn(Side, hm, cm, enableBlurring)

\* BeyerErosion.applyChanges with both branches of enableBlurring
BeyerApplyChanges(hm, cm, enableBlurring) ==
  IF ~cm.alloc THEN [hm |-> hm, cm |-> cm]
  ELSE [hm |-> ApplyChangeMapWithBlur(hm, cm.data, enableBlurring),
        cm |-> ResetChangeMap(cm)]

\* applyChanges called on its own: any buffer, any pending deltas
ApplyInputs ==
  {[stage |-> "input", hm |-> h, cm |-> c, blur |-> b, before |-> h] :
     h \in {GridZero, [i \in GridIdx |-> i]},
     c \in {Null} \cup {Alloc(GridUnit(k, d)) : k \in GridIdx, d \in {-MaxDelta, MaxDelta}},
     b \in BOOLEAN}

ApplyInit == InitProgram /\ probe \in ApplyInputs

FirstApply ==
  /\ probe.stage = "input"
  /\ LET r == BeyerApplyChanges(probe.hm, probe.cm, probe.blur)
     IN  probe' = [probe EXCEPT !.stage = "applied", !.hm = r.hm, !.cm = r.cm]
  /\ UNCHANGED progVars

SecondApply ==
  /\ probe.stage = "applied"
  /\ LET r == BeyerApplyChanges(probe.hm, probe.cm, probe.blur)
     IN  probe' = [probe EXCEPT !.stage = "reapplied", !.hm = r.hm, !.cm = r.cm,
                                !.before = probe.hm]
  /\ UNCHANGED progVars

ApplyNext == FirstApply \/ SecondApply

ApplySpec == ApplyInit /\ [][ApplyNext]_vars

\* ------------------------------------------- buffer indices of a droplet
Min(a, b) == IF a <= b THEN a ELSE b

\* corner sampling without the clamp
SampleCorners_NoClamp(x, y, width, height) ==
  {y * width + x, y * width + x + 1, (y + 1) * width + x, (y + 1) * width + x + 1}

\* BeyerErosion.sampleCorners: the indices read around cell (x, y)
SampleCorners(x, y, width, height) ==
  LET cx == Max(0, Min(x, width - 2))
      cy == Max(0, Min(y, height - 2))
  IN  {cy * width + cx, cy * width + cx + 1,
       (cy + 1) * width + cx, (cy + 1) * width + cx + 1}

\* BeyerErosion.erodeTerrain / depositSediment: the offsets of the brush
\* whose cell lies in the grid and within the radius of the centre
BrushOffsets(centerX, centerY, width, height, radius) ==
  {d \in (-radius..radius) \X (-radius..radius) :
     /\ centerX + d[1] >= 0 /\ centerX + d[1] < width
     /\ centerY + d[2] >= 0 /\ centerY + d[2] < height
     /\ d[1] * d[1] + d[2] * d[2] <= radius * radius}
BrushIndices(centerX, centerY, width, height, radius) ==
  {(centerY + d[2]) * width + (centerX + d[1]) :
     d \in BrushOffsets(centerX, centerY, width, height, radius)}

\* BeyerErosion.simulateDroplet, one step of the loop: the droplet is in cell
\* (x, y) and moves by one unit into cell (nx, ny), possibly off the grid.
BeyerStepIndices(x, y, nx, ny, width, height, radius) ==
  SampleCorners(x, y, width, height)
    \cup (IF nx < 0 \/ nx >= width \/ ny < 0 \/ ny >= height THEN {}
          ELSE SampleCorners(nx, ny, width, height)
                 \cup BrushIndices(x, y, width, height, radius))

\* PBErosion.centralDiffNormal
CentralDiffNormal(i, j, width, height) ==
  LET ix0 == Max(1, Min(width - 2, i))
      jy0 == Max(1, Min(height - 2, j))
  IN  {jy0 * width + ix0 + 1, jy0 * width + ix0 - 1,
       (jy0 + 1) * width + ix0, (jy0 - 1) * width + ix0}

\* PBErosion.surfaceNormal: the cell and its eight neighbours
SurfaceNormal(i, j, width, height) ==
  IF i <= 0 \/ i >= width - 1 \/ j <= 0 \/ j >= height - 1
    THEN CentralDiffNormal(i, j, width, height)
    ELSE {(j + dj) * width + (i + di) : di \in -1..1, dj \in -1..1}

\* a loop that no cell ends
PBStops_Never(x, y, width, height) == FALSE

\* PBErosion.simulateDroplet leaves the loop in a border cell
PBStops(x, y, width, height) ==
  x < 1 \/ x >= width - 1 \/ y < 1 \/ y >= height - 1

\* PBErosion.simulateDroplet, one pass of the loop from cell (x, y) to the
\* cell (nx, ny) the integration step lands in
PBStepIndices(x, y, nx, ny, width, height) ==
  IF PBStops(x, y, width, height) THEN {}
  ELSE SurfaceNormal(x, y, width, height)
         \cup (IF nx < 0 \/ nx >= width \/ ny < 0 \/ ny >= height THEN {}
               ELSE {y * width + x, ny * width + nx})

\* a droplet spawned at rng() * width, rng() * height
Spawns ==
  {[stage |-> "droplet", model |-> m, width |-> w, radius |-> r,
    x |-> x, y |-> y, alive |-> TRUE, used |-> {}] :
     m \in Models, w \in 2..Side, r \in 1..MaxRadius, x \in 0..(Side - 1),
     y \in 0..(Side - 1)}

DropletInit ==
  /\ InitProgram
  /\ probe \in {p \in Spawns : p.x < p.width /\ p.y < p.width}

BeyerDropletStep(nx, ny) ==
  /\ probe.stage = "droplet" /\ probe.model = "beyer" /\ probe.alive
  /\ nx \in (probe.x - 1)..(probe.x + 1)
  /\ ny \in (probe.y - 1)..(probe.y + 1)
  /\ probe' = [probe EXCEPT
                 !.used = BeyerStepIndices(probe.x, probe.y, nx, ny,
                                           probe.width, probe.width, probe.radius),
                 !.alive = InGridOf(nx, ny, probe.width),
                 !.x = IF InGridOf(nx, ny, probe.width) THEN nx ELSE probe.x,
                 !.y = IF InGridOf(nx, ny, probe.width) THEN ny ELSE probe.y]
  /\ UNCHANGED progVars

PBDropletStep(nx, ny) ==
  /\ probe.stage = "droplet" /\ probe.model = "pb" /\ probe.alive
  /\ LET stays == /\ ~PBStops(probe.x, probe.y, probe.width, probe.width)
                  /\ InGridOf(nx, ny, probe.width)
     IN  probe' = [probe EXCEPT
                     !.used = PBStepIndices(probe.x, probe.y, nx, ny,
                                            probe.width, probe.width),
                     !.alive = stays,
                     !.x = IF stays THEN nx ELSE probe.x,
                     !.y = IF stays THEN ny ELSE probe.y]
  /\ UNCHANGED progVars

DropletNext ==
  \/ \E nx \in -1..Side, ny \in -1..Side : BeyerDropletStep(nx, ny)
  \/ \E nx \in -1..Side, ny \in -1..Side : PBDropletStep(nx, ny)

DropletSpec == DropletInit /\ [][DropletNext]_vars

\* ------------------------------------------------- erode on an instance
\* the change map an instance holds after earlier simulateStep and
\* applyChanges calls: never allocated, allocated and reset, or with deltas
LeftOvers == {Null, Alloc(Zero)} \cup {Alloc(e) : e \in DropletEffects}

ErodeInputs ==
  {[stage |-> "input", model |-> m, hm |-> hm, total |-> n, effs |-> effs,
    instA |-> a, instB |-> b, outA |-> hm, outB |-> hm] :
     m \in Models, hm \in {Zero} \cup DropletEffects, n \in 0..MaxIter,
     effs \in EffectSeqs, a \in LeftOvers, b \in LeftOvers}

ErodeInit == InitProgram /\ probe \in ErodeInputs

\* the first run, on an instance in state instA
FirstErode ==
  /\ probe.stage = "input"
  /\ probe' = [probe EXCEPT
                 !.stage = "first",
                 !.outA = ErodeOn(probe.model, probe.instA, probe.hm,
                                  probe.total, probe.effs).hm]
  /\ UNCHANGED progVars

\* the second run, from an identical buffer, on an instance in state instB
SecondErode ==
  /\ probe.stage = "first"
  /\ probe' = [probe EXCEPT
                 !.stage = "second",
                 !.outB = ErodeOn(probe.model, probe.instB, probe.hm,
                                  probe.total, probe.effs).hm]
  /\ UNCHANGED progVars

ErodeNext == FirstErode \/ SecondErode

ErodeSpec == ErodeInit /\ [][ErodeNext]_vars

\* ---------------------------------------------------------- radius brush
\* Numbers of the brush are held in units of 1/Precision; every operation
\* whose result is not a whole number of units rounds it to the nearest one.
Abs(a) == IF a >= 0 THEN a ELSE -a

\* Math.sqrt of n units squared, within 0..limit
\* the largest r in lo..hi with r - 1/2 <= sqrt(n), by bisection
RECURSIVE SqrtSearch(_, _, _)
SqrtSearch(n, lo, hi) ==
  IF lo >= hi THEN lo
  ELSE LET mid == (lo + hi + 1) \div 2
       IN  IF (2 * mid - 1) * (2 * mid - 1) <= 4 * n
             THEN SqrtSearch(n, mid, hi)
             ELSE SqrtSearch(n, lo, mid - 1)
RoundSqrt(n, limit) == SqrtSearch(n, 0, limit)

\* const distance = Math.sqrt(dx * dx + dy * dy)
Distance(d, radius) ==
  RoundSqrt((d[1] * d[1] + d[2] * d[2]) * Precision * Precision,
            radius * Precision)

\* const weight = Math.max(0, radius - distance)
Weight(d, radius) == Max(0, radius * Precision - Distance(d, radius))

\* a weight that is not divided by the total
NormalizedWeight_Raw(weight, totalWeight) == weight

\* const normalizedWeight = change.weight / totalWeight
NormalizedWeight(weight, totalWeight) ==
  RoundDiv(weight * Precision, totalWeight)

\* the deltas one brush call adds on a grid of side w: amount *
\* normalizedWeight for every cell of the brush, nothing when totalWeight is 0
BrushDeltasOn(w, centerX, centerY, radius, amount) ==
  LET offs == BrushOffsets(centerX, centerY, w, w, radius)
      wt == [d \in offs |-> Weight(d, radius)]
      totalWeight == SumOver(wt, offs)
  IN  [i \in DOMAIN GridZeroOn(w) |->
         IF totalWeight > 0
              /\ \E d \in offs : (centerY + d[2]) * w + (centerX + d[1]) = i
           THEN LET d == CHOOSE d \in offs :
                           (centerY + d[2]) * w + (centerX + d[1]) = i
                IN  RoundDiv(amount * NormalizedWeight(wt[d], totalWeight),
                             Precision)
           ELSE 0]
BrushDeltas(centerX, centerY, radius, amount) ==
  BrushDeltasOn(Side, centerX, centerY, radius, amount)

\* BeyerErosion.erodeTerrain with params.erosionRadius = radius
ErodeTerrain(cm, centerX, centerY, radius, amount) ==
  LET dl == BrushDeltas(centerX, centerY, radius, amount)
  IN  [i \in GridIdx |-> cm[i] - dl[i]]

\* BeyerErosion.depositSediment with params.depositionRadius = radius
DepositSediment(cm, centerX, centerY, radius, amount) ==
  LET dl == BrushDeltas(centerX, centerY, radius, amount)
  IN  [i \in GridIdx |-> cm[i] + dl[i]]

\* the whole disc of the brush lies inside the grid
DiscInside(centerX, centerY, radius) ==
  /\ InGrid(centerX - radius, centerY - radius)
  /\ InGrid(centerX + radius, centerY + radius)

\* amounts from 0 to MaxDelta quarters
Amounts == {k * (Precision \div 4) : k \in 0..MaxDelta}

BrushInputs ==
  {[stage |-> "input", kind |-> k, x |-> x, y |-> y, radius |-> r,
    amount |-> a, cm |-> GridZero] :
     k \in {"erode", "deposit"}, x \in 0..(Side - 1), y \in 0..(Side - 1),
     r \in 1..MaxRadius, a \in Amounts}

BrushInit == InitProgram /\ probe \in BrushInputs

ApplyBrush ==
  /\ probe.stage = "input"
  /\ probe' = [probe EXCEPT
                 !.stage = "brushed",
                 !.cm = IF probe.kind = "erode"
                          THEN ErodeTerrain(probe.cm, probe.x, probe.y,
                                            probe.radius, probe.amount)
                          ELSE DepositSediment(probe.cm, probe.x, probe.y,
                                               probe.radius, probe.amount)]
  /\ UNCHANGED progVars

BrushNext == ApplyBrush

BrushSpec == BrushInit /\ [][BrushNext]_vars

\* what a brush call added to the change map, counted towards the requested
\* direction: the deposit, or the erosion taken as positive
BrushSum ==
  IF probe.kind = "erode" THEN -SumOver(probe.cm, GridIdx)
  ELSE SumOver(probe.cm, GridIdx)

\* the total one brush call at (centerX, centerY) adds to a zero change map
BrushTotal(centerX, centerY, radius, amount) ==
  SumOver(BrushDeltas(centerX, centerY, radius, amount), GridIdx)

\* the centres whose whole disc lies inside the grid
InsideCentres(radius) ==
  {c \in (0..(Side - 1)) \X (0..(Side - 1)) : DiscInside(c[1], c[2], radius)}

BrushCellCount ==
  Cardinality(BrushOffsets(probe.x, probe.y, Side, Side, probe.radius))

\* ------------------------------------------- the ridge-follower droplet
\* Positions, directions, velocity and volume are held in units of
\* 1/Precision; heights, amounts and sediment in units of 1/HeightUnits.
\* Every operation rounds its result to the nearest unit.

\* BeyerErosion.DEFAULT_PARAMS, in units where the parameter is a quantity
DEFAULT_PARAMS ==
  [inertia |-> RoundDiv(5 * Precision, 100),
   capacity |-> 6,
   minSlope |-> RoundDiv(HeightUnits, 100),
   erosionSpeed |-> RoundDiv(3 * Precision, 10),
   depositionSpeed |-> RoundDiv(3 * Precision, 10),
   evaporationSpeed |-> RoundDiv(Precision, 1000),
   gravity |-> 4,
   maxPath |-> 24,
   erosionRadius |-> 4,
   depositionRadius |-> 4,
   minLifetime |-> RoundDiv(7 * Precision, 10),
   maxLifetime |-> Precision,
   minWater |-> RoundDiv(7 * Precision, 10),
   maxWater |-> RoundDiv(12 * Precision, 10),
   enableBlurring |-> TRUE]

\* values of randomFn(), in [0, 1)
Randoms == {0, Precision \div 2, Precision - 1}
RandomEnds == {0, Precision - 1}

\* (cos(angle), sin(angle)) for the angles randomFn() * 2 * PI the model draws
Diagonal == RoundSqrt((Precision * Precision) \div 2, Precision)
RandomDirections ==
  {<<Precision, 0>>, <<-Precision, 0>>, <<0, Precision>>, <<0, -Precision>>,
   <<Diagonal, Diagonal>>, <<-Diagonal, Diagonal>>,
   <<Diagonal, -Diagonal>>, <<-Diagonal, -Diagonal>>}

\* Math.floor(position.x) of a position inside the grid
CellOf(p) == p \div Precision

\* the heights sampleCorners returns around cell (x, y): h00, h10, h01, h11
CornerHeights(hm, x, y, w) ==
  LET cx == Max(0, Min(x, w - 2))
      cy == Max(0, Min(y, w - 2))
  IN  <<hm[cy * w + cx], hm[cy * w + cx + 1],
        hm[(cy + 1) * w + cx], hm[(cy + 1) * w + cx + 1]>>

\* BeyerErosion.calculateGradient
CalculateGradient(hm, pos, w) ==
  LET x == CellOf(pos[1])
      y == CellOf(pos[2])
      h == CornerHeights(hm, x, y, w)
      u == pos[1] - x * Precision
      v == pos[2] - y * Precision
  IN  <<RoundDiv((h[2] - h[1]) * (Precision - v) + (h[4] - h[3]) * v, Precision),
        RoundDiv((h[3] - h[1]) * (Precision - u) + (h[4] - h[2]) * u, Precision)>>

\* BeyerErosion.interpolateHeight
InterpolateHeight(hm, pos, w) ==
  LET x == CellOf(pos[1])
      y == CellOf(pos[2])
      h == CornerHeights(hm, x, y, w)
      u == pos[1] - x * Precision
      v == pos[2] - y * Precision
  IN  RoundDiv(h[1] * (Precision - u) * (Precision - v)
                 + h[2] * u * (Precision - v)
                 + h[3] * (Precision - u) * v
                 + h[4] * u * v,
               Precision * Precision)

\* Vector2.length and Vector2.normalize (a zero vector stays zero)
Length(d) == RoundSqrt(d[1] * d[1] + d[2] * d[2], Abs(d[1]) + Abs(d[2]))
Normalize(d) ==
  IF Length(d) = 0 THEN <<0, 0>>
  ELSE <<RoundDiv(d[1] * Precision, Length(d)), RoundDiv(d[2] * Precision, Length(d))>>

\* droplet.direction.multiplyScalar(inertia).sub(gradient.multiplyScalar(1 - inertia)),
\* normalised
SteeredDirection(dir, gradient, params) ==
  Normalize(
    <<RoundDiv(dir[1] * params.inertia * HeightUnits, Precision * Precision)
        - RoundDiv(gradient[1] * (Precision - params.inertia), Precision),
      RoundDiv(dir[2] * params.inertia * HeightUnits, Precision * Precision)
        - RoundDiv(gradient[2] * (Precision - params.inertia), Precision)>>)

\* a zero direction is replaced by the random one
NewDirection(dir, gradient, params, randomDir) ==
  LET d == SteeredDirection(dir, gradient, params)
  IN  IF d = <<0, 0>> THEN Normalize(randomDir) ELSE d

\* the position is off the grid
OutOfBounds(pos, w) ==
  pos[1] < 0 \/ pos[1] >= w * Precision \/ pos[2] < 0 \/ pos[2] >= w * Precision

\* an amount to erode without the limit that stops erosion when the droplet
\* does not go downhill
AmountToErode_NoLimit(sedimentDiff, heightDiff, params) ==
  RoundDiv(sedimentDiff * params.erosionSpeed, Precision)

\* const amountToErode =
\*   Math.min(sedimentDiff * erosionSpeed, Math.max(0, -heightDiff))
AmountToErode(sedimentDiff, heightDiff, params) ==
  Min(RoundDiv(sedimentDiff * params.erosionSpeed, Precision), Max(0, -heightDiff))

\* amountToDeposit = -sedimentDiff * depositionSpeed * volume / initialWater
AmountToDeposit(sedimentDiff, volume, initialWater, params) ==
  RoundDiv(RoundDiv(-sedimentDiff * params.depositionSpeed, Precision) * volume,
           initialWater)

\* droplet.velocity after the pass
NewVelocity(velocity, heightDiff, params) ==
  IF heightDiff > 0
    THEN Max(RoundDiv(Precision, 10), RoundDiv(velocity, 2))
    ELSE RoundSqrt(velocity * velocity
                     + RoundDiv(Max(0, -heightDiff) * params.gravity
                                  * Precision * Precision, HeightUnits),
                   velocity + Precision
                     + (Max(0, -heightDiff) * params.gravity * Precision)
                         \div HeightUnits)

\* the deltas of an erosion: what the brush distributes is taken away
Negated(deltas) == [i \in DOMAIN deltas |-> -deltas[i]]

\* a droplet write that goes to the height buffer instead of the change map
DropletWrite_ToHeightMap(hm, cm, deltas) ==
  [hm |-> [i \in DOMAIN hm |-> hm[i] + deltas[i]], cm |-> cm]

\* erodeTerrain(changeMap, ...) / depositSediment(changeMap, ...): the deltas
\* of the brush are added to the change map the droplet was given
DropletWrite(hm, cm, deltas) ==
  [hm |-> hm, cm |-> [i \in DOMAIN cm |-> cm[i] + deltas[i]]]

\* BeyerErosion.simulateDroplet, one pass of the for loop on droplet d:
\* the buffers and the droplet after the pass, and whether the loop goes on
BeyerPass(hm, cm, d, w, params, randomDir) ==
  LET gradient == CalculateGradient(hm, d.position, w)
      currentHeight == InterpolateHeight(hm, d.position, w)
      direction == NewDirection(d.direction, gradient, params, randomDir)
      origPosition == d.position
      position == <<origPosition[1] + direction[1], origPosition[2] + direction[2]>>
  IN  IF OutOfBounds(position, w) \/ direction = <<0, 0>>
        THEN [hm |-> hm, cm |-> cm, alive |-> FALSE,
              d |-> [d EXCEPT !.position = position, !.direction = direction]]
        ELSE
          LET newHeight == InterpolateHeight(hm, position, w)
              heightDiff == newHeight - currentHeight
              capacity == RoundDiv(Max(-heightDiff, params.minSlope) * d.velocity
                                     * d.volume * params.capacity,
                                   Precision * Precision)
              sedimentDiff == capacity - d.sediment
              amountToDeposit ==
                AmountToDeposit(sedimentDiff, d.volume, d.initialWater, params)
              amountToErode == AmountToErode(sedimentDiff, heightDiff, params)
              cx == CellOf(origPosition[1])
              cy == CellOf(origPosition[2])
              deltas ==
                IF sedimentDiff < 0
                  THEN BrushDeltasOn(w, cx, cy, params.depositionRadius,
                                     amountToDeposit)
                  ELSE Negated(BrushDeltasOn(w, cx, cy, params.erosionRadius,
                                             amountToErode))
              written == DropletWrite(hm, cm, deltas)
              velocity == NewVelocity(d.velocity, heightDiff, params)
              volume == RoundDiv(d.volume * (Precision - params.evaporationSpeed),
                                 Precision)
          IN  [hm |-> written.hm, cm |-> written.cm,
               alive |-> /\ d.step + 1 < d.maxPath
                         /\ velocity * 20 >= Precision
                         /\ volume * 100 >= Precision,
               d |-> [d EXCEPT
                        !.position = position,
                        !.direction = direction,
                        !.sediment = IF sedimentDiff < 0 THEN @ - amountToDeposit
                                     ELSE @ + amountToErode,
                        !.velocity = velocity,
                        !.volume = volume,
                        !.step = @ + 1]]

\* const dropletMaxPath = Math.floor(maxPath * lifetimeMultiplier)
DropletMaxPath(params, rnd) ==
  (params.maxPath * (params.minLifetime * Precision
                      + rnd * (params.maxLifetime - params.minLifetime)))
    \div (Precision * Precision)

\* the droplet BeyerErosion.simulateDroplet creates from four random values
NewDroplet(w, params, rx, ry, rw, rl) ==
  LET initialWater == RoundDiv(params.minWater * Precision
                                 + rw * (params.maxWater - params.minWater),
                               Precision)
  IN  [position |-> <<rx * w, ry * w>>,
       direction |-> <<0, 0>>,
       velocity |-> Precision,
       volume |-> initialWater,
       initialWater |-> initialWater,
       sediment |-> 0,
       step |-> 0,
       maxPath |-> DropletMaxPath(params, rl)]

\* height fields of side w: flat, a slope along x, a pit around the middle
Flat(w) == GridZeroOn(w)
Slope(w) == [i \in DOMAIN GridZeroOn(w) |-> (i % w) * (HeightUnits \div 8)]
Pit(w) ==
  [i \in DOMAIN GridZeroOn(w) |->
     (((i % w) - w \div 2) * ((i % w) - w \div 2)
        + ((i \div w) - w \div 2) * ((i \div w) - w \div 2)) * (HeightUnits \div 16)]

\* one iteration of the ridge-follower on its own: simulateStep on a fresh
\* instance, then applyChanges
StepInputsOn(w) ==
  {[stage |-> "input", w |-> w, hm |-> hm, before |-> hm, cm |-> Null,
    d |-> NewDroplet(w, DEFAULT_PARAMS, 0, 0, 0, 0), passes |-> 0] :
     hm \in {Flat(w), Slope(w), Pit(w)}}
StepInputs == UNION {StepInputsOn(w) : w \in 2..Side}

StepInit == InitProgram /\ probe \in StepInputs

\* BeyerErosion.simulateStep up to the loop of simulateDroplet: the change
\* map is allocated on first use and the droplet is created
BeginStep(rx, ry, rw, rl) ==
  /\ probe.stage = "input"
  /\ LET d == NewDroplet(probe.w, DEFAULT_PARAMS, rx, ry, rw, rl)
     IN  probe' = [probe EXCEPT
                     !.stage = IF d.maxPath > 0 THEN "flowing" ELSE "stepped",
                     !.cm = IF probe.cm.alloc THEN probe.cm
                            ELSE Alloc(GridZeroOn(probe.w)),
                     !.d = d]
  /\ UNCHANGED progVars

\* one pass of the loop of simulateDroplet; simulateStep returns when the
\* loop ends
DropletPass(randomDir) ==
  /\ probe.stage = "flowing"
  /\ LET r == BeyerPass(probe.hm, probe.cm.data, probe.d, probe.w,
                        DEFAULT_PARAMS, randomDir)
     IN  probe' = [probe EXCEPT
                     !.stage = IF r.alive THEN "flowing" ELSE "stepped",
                     !.hm = r.hm,
                     !.cm = Alloc(r.cm),
                     !.d = r.d,
                     !.passes = @ + 1]
  /\ UNCHANGED progVars

\* BeyerErosion.applyChanges after the step
ApplyStep ==
  /\ probe.stage = "stepped"
  /\ LET hm == ApplyChangeMapWithBlurOn(probe.w, probe.hm, probe.cm.data,
                                        DEFAULT_PARAMS.enableBlurring)
     IN  probe' = [probe EXCEPT !.stage = "applied", !.hm = hm,
                                !.cm = ResetChangeMap(probe.cm)]
  /\ UNCHANGED progVars

\* the pass draws a random angle only when the steered direction is zero
DrawnDirections ==
  IF probe.stage = "flowing"
       /\ SteeredDirection(probe.d.direction,
                           CalculateGradient(probe.hm, probe.d.position, probe.w),
                           DEFAULT_PARAMS) # <<0, 0>>
    THEN {<<Precision, 0>>}
    ELSE RandomDirections

StepNext ==
  \/ \E rx \in Randoms, ry \in Randoms, rw \in RandomEnds, rl \in RandomEnds :
       BeginStep(rx, ry, rw, rl)
  \/ \E randomDir \in DrawnDirections : DropletPass(randomDir)
  \/ ApplyStep

StepSpec == StepInit /\ [][StepNext]_vars

\* the loop of simulateDroplet runs on by itself until it ends
FairStepSpec ==
  StepSpec /\ WF_vars(\E randomDir \in DrawnDirections : DropletPass(randomDir))

\* ------------------------------------------ the physics-based droplet
\* The volume of the droplet is a floating-point number: a non-negative
\* multiple n of the smallest positive number, with at most MantissaBits
\* significant bits; 1.0 is n = One.  Results are rounded to the nearest
\* such number, ties to the even mantissa.
One == 2 ^ UnitExp
BitLen(n) == CHOOSE b \in 1..(UnitExp + 1) : 2 ^ (b - 1) <= n /\ n < 2 ^ b
StepOf(n) == IF n < 2 ^ MantissaBits THEN 1 ELSE 2 ^ (BitLen(n) - MantissaBits)
Floats == {n \in 0..One : n % StepOf(n) = 0}

\* the floating-point number nearest to a / b, for 0 <= a / b <= 1.0
NearestFloats(a, b) ==
  {f \in Floats : \A g \in Floats : Abs(a - f * b) <= Abs(a - g * b)}
RoundFloat(a, b) ==
  CHOOSE f \in NearestFloats(a, b) :
    Cardinality(NearestFloats(a, b)) = 1 \/ (f \div StepOf(f)) % 2 = 0

\* 1.0 - timeStep * evaporationRate, for the product r
EvaporationFactor(r) == RoundFloat(One - r, 1)

\* a volume that is left as it is
Evaporate_Keep(volume, factor) == volume

\* droplet.volume *= (1.0 - timeStep * this.params.evaporationRate)
Products ==
  [volume \in Floats, factor \in Floats |-> RoundFloat(volume * factor, One)]
Evaporate(volume, factor) == Products[volume, factor]

\* the smallest normal number: below it the spacing of the numbers no longer
\* shrinks with their size
SmallestNormal == 2 ^ (MantissaBits - 1)

\* the factor is below 1.0 and minVolume is not below the normal range
Decays(minVolume, factor) == factor < One /\ minVolume >= SmallestNormal

\* values of timeStep * evaporationRate and of minVolume the model draws
EvaporationProducts == {1, One \div 8, One \div 2}
MinVolumes == {1, SmallestNormal, One \div 2}

\* simulateDroplet of PBErosion on a grid of side w, from every spawn cell
PBInputs ==
  {[stage |-> "pb", w |-> w, x |-> x, y |-> y, volume |-> One,
    minVolume |-> mv, factor |-> EvaporationFactor(r), product |-> r,
    normals |-> 0, wrote |-> {}, from |-> <<x, y>>] :
     w \in 2..Side, x \in 0..(Side - 1), y \in 0..(Side - 1),
     mv \in MinVolumes, r \in EvaporationProducts}

PBInit == InitProgram /\ probe \in {p \in PBInputs : p.x < p.w /\ p.y < p.w}

\* the loop test fails: simulateDroplet returns
PBLoopEnds ==
  /\ probe.stage = "pb"
  /\ ~(probe.volume > probe.minVolume)
  /\ probe' = [probe EXCEPT !.stage = "pbdone", !.normals = 0, !.wrote = {},
                            !.from = <<probe.x, probe.y>>]
  /\ UNCHANGED progVars

\* one pass of the while loop: the droplet is in cell (x, y) and the
\* integration step lands in cell (nx, ny), possibly off the grid
PBPass(nx, ny) ==
  /\ probe.stage = "pb"
  /\ probe.volume > probe.minVolume
  /\ probe' =
       IF PBStops(probe.x, probe.y, probe.w, probe.w)
         THEN [probe EXCEPT !.stage = "pbdone", !.normals = 0, !.wrote = {},
                            !.from = <<probe.x, probe.y>>]
       ELSE IF ~InGridOf(nx, ny, probe.w)
         THEN [probe EXCEPT !.stage = "pbdone", !.normals = 1, !.wrote = {},
                            !.from = <<probe.x, probe.y>>]
       ELSE [probe EXCEPT !.normals = 1,
                          !.wrote = {probe.y * probe.w + probe.x},
                          !.from = <<probe.x, probe.y>>,
                          !.x = nx, !.y = ny,
                          !.volume = Evaporate(probe.volume, probe.factor)]
  /\ UNCHANGED progVars

PBPasses == \E nx \in -1..probe.w, ny \in -1..probe.w : PBPass(nx, ny)

PBNext == PBLoopEnds \/ PBPasses

PBSpec == PBInit /\ [][PBNext]_vars

\* the droplet loops of both strategies; simulateDroplet runs its while loop
\* on until the loop ends
LoopNext == StepNext \/ PBNext
LoopSpec ==
  /\ (StepInit \/ PBInit)
  /\ [][LoopNext]_vars
  /\ WF_vars(PBNext)

\* update() in a frame whose two clock reads before the loop agree
UpdateOnTime == \E gap \in FrameGaps, cost \in StepCosts, effs \in EffectSeqs :
                  Tick(gap, 0, cost, effs)

\* ---------------------------------------------------------- specifications
\* The incremental path: the caller's operations and the render loop.
SchedNext ==
  \/ Start
  \/ Pause
  \/ Reset
  \/ Update
  \/ \E m \in Models : SetErosionModel(m)
  \/ \E n \in 1..MaxIter : SetIterations(n)
  \/ Regenerate

\* The batch path: the scheduler's operations, the worker and its messages.
BatchNext ==
  \/ Start
  \/ Pause
  \/ Reset
  \/ Update
  \/ StartBatch
  \/ \E w \in Workers, effs \in EffectSeqs : WorkerRun(w, effs)
  \/ \E w \in Workers, k \in 0..MaxIter : WorkerFail(w, k)
  \/ \E w \in Workers : Deliver(w)
  \/ \E m \in Models : SetErosionModel(m)

Next == SchedNext \/ BatchNext

Spec == Init /\ [][Next]_vars

SchedSpec == Init /\ [][SchedNext]_vars

BatchSpec == Init /\ [][BatchNext]_vars

\* The render loop calls update() in every frame, whatever else happens, and
\* the clock reads of a frame do not straddle a clock tick in every frame.
FairSchedSpec == SchedSpec /\ SF_vars(UpdateOnTime)

\* Simulator.getState
GetState == state

\* ------------------------------------------------------------------ claims

\* C1: in every reachable state iterationsCompleted is at most the active
\* strategy's getIterations().
C1_IterationsWithinCap == iterationsCompleted <= GetIterations(erosionModel)

\* C2: in every reachable state iterationsCompleted = getIterations() implies
\* that the state is COMPLETE.
C2_EqualityImpliesComplete ==
  iterationsCompleted = GetIterations(erosionModel) => GetState = "COMPLETE"

\* C3: from state RUNNING, update() called repeatedly with no other operation
\* interleaved reaches COMPLETE: once RUNNING after an update, eventually the
\* state is COMPLETE or an operation other than update has run.
C3_TicksReachComplete ==
  (state = "RUNNING" /\ lastOp = "tick") ~> (state = "COMPLETE" \/ lastOp # "tick")

\* C4: the state changes only along READY->RUNNING, RUNNING->PAUSED,
\* RUNNING->COMPLETE, PAUSED->RUNNING, and from any state to READY by reset.
C4_OnlyAllowedTransitions ==
  [][\/ state' = state
     \/ <<state, state'>> \in {<<"READY", "RUNNING">>, <<"RUNNING", "PAUSED">>,
                                <<"RUNNING", "COMPLETE">>, <<"PAUSED", "RUNNING">>}
     \/ state' = "READY" /\ lastOp' = "reset"]_vars

\* C5: during a batch run the buffer handed to the worker has exactly one
\* holder: the worker from the start message until the complete message is
\* posted, the main thread from then on; and no step of the main thread
\* changes the buffer while the worker runs on it.
C5_OneHolder ==
  \A w \in Workers :
    /\ Cardinality(workers[w].holders) <= 1
    /\ workers[w].status \in {"running", "failed"} => workers[w].holders = {"worker"}
    /\ workers[w].status = "done" => workers[w].holders = {"main"}
C5_MainKeepsOff ==
  \A w \in Workers :
    (workers[w].status = "running" /\ workers'[w].status = "running")
      => workers'[w].buf = workers[w].buf
C5_BufferSingleHolder == []C5_OneHolder /\ [][C5_MainKeepsOff]_vars
C5_Witness ==
  \E w \in Workers :
    /\ workers[w].status = "done"
    /\ inbox[w] # <<>>
    /\ Head(inbox[w]).type = "complete"
    /\ workers[w].holders = {"main"}

\* C6: a completion callback is never invoked for a run that was cancelled,
\* and the result merged into the live height map is never that of a
\* cancelled run.
C6_NoCompletionAfterCancel ==
  lastOp = "complete" =>
    /\ workers[wmCallbacks].status # "cancelled"
    /\ workers[mergedFrom].status # "cancelled"

\* C7: once the failure of the worker of the first batch run has been handled,
\* the batch flag is what it was before startBatch(), that is cleared.
C7_FailureRestoresScheduler ==
  (lastOp = "error" /\ nWorkers = 1) => ~runInBatchMode

\* C8: whenever the terrain component regenerates the height field the
\* scheduler is READY.
C8_RegenerateOnlyWhenReady ==
  lastOp \in {"regenerate", "reset"} => state = "READY"

\* C9: after reset() the ridge-follower's change map is all zero.
C9_ChangeMapZeroAfterReset ==
  lastOp = "reset" => changeMap.data = Zero

\* C10: the active strategy reference never changes while the state is RUNNING
\* or PAUSED.
C10_NoSwapMidRun ==
  [][(state \in {"RUNNING", "PAUSED"}) => (erosionModel' = erosionModel)]_vars

\* C11: iterationsCompleted never decreases, except that reset() sets it to 0.
C11_CounterMonotonic ==
  [][iterationsCompleted' < iterationsCompleted
       => (lastOp' = "reset" /\ iterationsCompleted' = 0)]_vars

\* C12: an update() in state RUNNING with iterationsCompleted below the cap
\* increases iterationsCompleted by at least 1.
C12_TickMakesProgress ==
  [][(lastOp' = "tick" /\ state = "RUNNING"
        /\ iterationsCompleted < GetIterations(erosionModel))
       => iterationsCompleted' >= iterationsCompleted + 1]_vars

\* C13: an update() in a state other than RUNNING changes neither the state,
\* nor iterationsCompleted, nor the height map, nor the change map, and fires
\* no callback.
C13_TickNoOpUnlessRunning ==
  [][(lastOp' = "tick" /\ state # "RUNNING")
       => (/\ UNCHANGED <<state, iterationsCompleted, heightMap, changeMap>>
           /\ fired' = <<>>)]_vars
C13_Witness ==
  /\ lastOp = "tick"
  /\ state = "PAUSED"
  /\ fired = <<>>
  /\ iterationsCompleted > 0
  /\ changeMap.data # Zero

\* C14: an update() that brings iterationsCompleted to the cap sets the state
\* to COMPLETE and fires the complete callbacks, and an update() that sets
\* the state to COMPLETE leaves iterationsCompleted at or above the cap.
C14_CompleteExactlyAtCap ==
  [][lastOp' = "tick" =>
       /\ (iterationsCompleted < GetIterations(erosionModel)
             /\ iterationsCompleted' = GetIterations(erosionModel))
            => (state' = "COMPLETE" /\ fired' = <<"complete">>)
       /\ (state # "COMPLETE" /\ state' = "COMPLETE")
            => iterationsCompleted' >= GetIterations(erosionModel)]_vars
C14_Witness ==
  /\ lastOp = "tick"
  /\ state = "COMPLETE"
  /\ fired = <<"complete">>
  /\ iterationsCompleted = GetIterations(erosionModel)

C16_CompletionMerges ==
  \A w \in Workers :
    (inbox[w] # <<>> /\ lastOp' = "complete" /\ mergedFrom' = w) =>
    /\ Head(inbox[w]).type = "complete"
    /\ heightMap' = Head(inbox[w]).heightMap
    /\ state' = "COMPLETE"
    /\ iterationsCompleted' = GetIterations(erosionModel)
    /\ fired' = <<"complete">>
C16_NoProgressAfterComplete ==
  ~(lastOp = "complete" /\ mergedFrom = wmCallbacks /\ lastOp' = "progress")
C16_BatchCompletes ==
  [][C16_CompletionMerges /\ C16_NoProgressAfterComplete]_vars

\* C17: after applyChanges the change map is all zero, and a second
\* applyChanges with no simulateStep in between leaves the height buffer as
\* it was, with blurring enabled and with blurring disabled.
C17_SecondApplyIsNoOp ==
  /\ (probe.stage \in {"applied", "reapplied"} /\ probe.cm.alloc)
       => probe.cm.data = GridZero
  /\ probe.stage = "reapplied" => probe.hm = probe.before
C17_Witness ==
  /\ probe.stage = "reapplied"
  /\ probe.blur
  /\ probe.cm.alloc
  /\ probe.hm \notin {GridZero, [i \in GridIdx |-> i]}

\* C18: every index a droplet step of either strategy uses to read or write
\* the height buffer or the change map lies in 0 .. width*height-1, from every
\* spawn cell of every grid with width = height >= 2.
C18_IndicesInRange ==
  probe.stage = "droplet" =>
    \A i \in probe.used : i >= 0 /\ i < probe.width * probe.width
C18_Witness ==
  /\ probe.stage = "droplet"
  /\ probe.model = "beyer"
  /\ probe.alive
  /\ probe.x = probe.width - 1
  /\ probe.y = probe.width - 1
  /\ probe.used # {}

C20_BrushSumExact ==
  (probe.stage = "brushed" /\ DiscInside(probe.x, probe.y, probe.radius))
    => BrushSum = probe.amount

\* C20: a brush whose whole disc lies inside the grid adds deltas that sum to
\* the amount up to rounding: the normalised weight and the delta of every
\* affected cell are each rounded, so the sum is within half a unit plus
\* amount / (2 * Precision) units per affected cell of the amount.
C20_BrushSumWithinRounding ==
  (probe.stage = "brushed" /\ DiscInside(probe.x, probe.y, probe.radius))
    => 2 * Precision * Abs(BrushSum - probe.amount)
         <= BrushCellCount * (Precision + probe.amount)
C20_Witness ==
  /\ probe.stage = "brushed"
  /\ DiscInside(probe.x, probe.y, probe.radius)
  /\ probe.kind = "erode"
  /\ probe.radius > 1
  /\ probe.amount > 0
  /\ BrushSum # probe.amount
  /\ Abs(BrushSum - probe.amount) <= BrushCellCount

\* C21: a brush call with a positive amount whose disc is partly off the grid
\* adds a strictly smaller total than the same call (same radius, same
\* amount) at a centre whose whole disc lies inside the grid.
C21_EdgeBrushAddsLess ==
  (/\ probe.stage = "brushed"
   /\ probe.amount > 0
   /\ ~DiscInside(probe.x, probe.y, probe.radius))
    => \A c \in InsideCentres(probe.radius) :
         BrushSum < BrushTotal(c[1], c[2], probe.radius, probe.amount)

\* C22: a ridge-follower simulateStep never writes to the height field: the
\* droplet's erosions and deposits go to the change map only, and the height
\* field changes only in applyChanges.
C22_StepWritesChangeMapOnly ==
  [][probe'.hm # probe.hm => (probe.stage = "stepped" /\ probe'.stage = "applied")]_vars
C22_Witness ==
  /\ probe.stage = "stepped"
  /\ probe.passes > 1
  /\ probe.cm.data # GridZeroOn(probe.w)
  /\ probe.hm = probe.before

\* C23: on a flat 4 x 4 grid one ridge-follower iteration (simulateStep, then
\* applyChanges) with the default parameters leaves the sum of all elevations
\* unchanged, wherever the droplet spawns and whichever direction it draws.
C23_FlatGridKeepsMass ==
  (probe.stage = "applied" /\ probe.w = 4 /\ probe.before = Flat(4))
    => SumOver(probe.hm, DOMAIN probe.hm) = SumOver(probe.before, DOMAIN probe.before)
C23_Witness ==
  /\ probe.stage = "applied"
  /\ probe.w = 4
  /\ probe.before = Flat(4)
  /\ probe.passes > 2
  /\ probe.d.direction[1] # 0 /\ probe.d.direction[2] # 0
  /\ SumOver(probe.hm, DOMAIN probe.hm) = 0

\* C28 as stated: every simulateStep terminates: the ridge-follower droplet
\* makes at most floor(maxPath * lifetimeMultiplier) passes, and the loop of
\* the physics-based droplet ends for every height field whenever
\* 0 < dt * evaporationRate < 1 and minVolume > 0.
C28_EveryStepTerminates ==
  /\ [](probe.stage \in {"flowing", "stepped", "applied"}
          => probe.passes <= DropletMaxPath(DEFAULT_PARAMS, Precision - 1))
  /\ (probe.stage = "pb" /\ probe.product > 0 /\ probe.product < One
        /\ probe.minVolume > 0)
       ~> (probe.stage = "pbdone")

\* C28: the ridge-follower droplet makes one more pass with every turn of its
\* loop and at most floor(maxPath * lifetimeMultiplier) of them; the loop of
\* the physics-based droplet ends for every movement of the droplet when the
\* computed factor 1 - dt * evaporationRate is below 1.0 and minVolume is not
\* below the normal range of the number format.
C28_StepTerminatesWhenVolumeDecays ==
  /\ [](probe.stage \in {"flowing", "stepped", "applied"}
          => (probe.passes <= probe.d.maxPath
                /\ probe.d.maxPath <= DropletMaxPath(DEFAULT_PARAMS, Precision - 1)))
  /\ [][probe.stage = "flowing" => probe'.passes = probe.passes + 1]_vars
  /\ (probe.stage = "pb" /\ Decays(probe.minVolume, probe.factor))
       ~> (probe.stage = "pbdone")
C28_Witness ==
  /\ probe.stage = "pbdone"
  /\ Decays(probe.minVolume, probe.factor)
  /\ probe.volume <= probe.minVolume
  /\ probe.volume < One
  /\ ~PBStops(probe.x, probe.y, probe.w, probe.w)

\* the indices of the cells that are not on the border of a grid of side w
InteriorCells(w) == {y * w + x : x \in 1..(w - 2), y \in 1..(w - 2)}

\* C29: a pass of the physics-based droplet that starts in a border cell ends
\* the droplet before a normal is computed and without a write; a pass writes
\* at most the one cell the droplet was in before it moved, and every cell
\* written is an interior cell.
C29_BorderDropletStopsUnwritten ==
  [][probe.stage = "pb" =>
       /\ (probe.y * probe.w + probe.x \notin InteriorCells(probe.w)
             => (probe'.stage = "pbdone" /\ probe'.normals = 0
                   /\ probe'.wrote = {}))
       /\ probe'.wrote \subseteq {probe.y * probe.w + probe.x}
       /\ probe'.wrote \subseteq InteriorCells(probe.w)]_vars
C29_Witness ==
  /\ probe.stage = "pbdone"
  /\ probe.y * probe.w + probe.x \notin InteriorCells(probe.w)
  /\ probe.volume > probe.minVolume
  /\ probe.volume < One
  /\ probe.normals = 0
  /\ probe.wrote = {}

\* the Worker objects that were created and not terminated
LiveWorkers == {w \in Workers : workers[w].status \in {"running", "done", "failed"}}

C26_LastDeltasStayPending ==
  [][/\ (lastOp' = "tick" /\ erosionModel = "beyer" /\ state # "COMPLETE"
           /\ state' = "COMPLETE" /\ iterationsCompleted' > iterationsCompleted)
          => (/\ changeMap'.data # Zero
              /\ heightMap' = ApplyChanges("beyer", heightMap, changeMap).hm
              /\ AddVec(heightMap', changeMap'.data) # heightMap')
     /\ (lastOp' = "tick" /\ state = "COMPLETE")
          => UNCHANGED <<heightMap, changeMap>>
     /\ lastOp' # "tick"
          => (changeMap' = changeMap /\ heightMap' \in {heightMap, Generated})
     /\ (lastOp' = "tick" /\ erosionModel = "beyer" /\ state = "RUNNING"
           /\ changeMap.data # Zero)
          => (/\ heightMap' = ApplyChanges("beyer", heightMap, changeMap).hm
              /\ heightMap' # heightMap)]_vars
C26_Witness ==
  /\ lastOp = "tick"
  /\ state = "COMPLETE"
  /\ erosionModel = "beyer"
  /\ completions = 1
  /\ changeMap.data # Zero
  /\ heightMap = Generated

RECURSIVE SumOfEffects(_, _)
SumOfEffects(effs, n) ==
  IF n = 0 THEN Zero ELSE AddVec(SumOfEffects(effs, n - 1), effs[n])

\* C30: the buffer a worker returns for a ridge-follower run is the buffer it
\* was sent plus the deltas of the run's droplets, each added once: the
\* applyChanges call after erode adds nothing.
C30_BatchDeltasAddedOnce ==
  [][\A w \in Workers :
       (workers[w].status = "running" /\ workers[w].model = "beyer"
          /\ workers'[w].status = "done")
         => \E effs \in EffectSeqs :
              inbox'[w][Len(inbox'[w])] =
                Msg("complete", 0, 0,
                    AddVec(workers[w].buf, SumOfEffects(effs, workers[w].total)))]_vars
C30_Witness ==
  /\ lastOp = "startBatch"
  /\ erosionModel = "beyer"
  /\ nWorkers = 1
  /\ workers[1].status = "done"
  /\ inbox[1] # <<>>
  /\ inbox[1][Len(inbox[1])].type = "complete"
  /\ inbox[1][Len(inbox[1])].heightMap # heightMap
====
